---- MODULE Spec2Model ----
(***************************************************************************)
(* The "ReAct Agent" graph of src/react_agent/graph.py: the nodes, the     *)
(* routing functions of its conditional edges, and the superstep loop that *)
(* executes them under a recursion limit.                                  *)
(*                                                                         *)
(* One run is modelled.  A superstep executes the single scheduled node    *)
(* together with the routing function of its outgoing edge.  The language  *)
(* model, the classifiers and the tools are external: their answers are    *)
(* nondeterministic choices from small sets.                               *)
(***************************************************************************)
EXTENDS Integers, Sequences, FiniteSets, TLC

VARIABLES
    recursion_limit,                \* config["recursion_limit"] of the run
    step,                           \* superstep counter of the executor
    next,                           \* the nodes scheduled for the next superstep
    status,                         \* "pending", "done", "failed", "out_of_steps"
    error,                          \* the exception that ended the run, or "none"
    executed,                       \* the nodes executed so far, in order
    written,                        \* the state fields written by nodes so far
    messages,                       \* State.messages
    router_stage,                   \* State.router_stage
    reschedule_or_cancel_decision,  \* State.reschedule_or_cancel_decision
    appointments,                   \* State.appointments
    appointment_id,                 \* State.appointment_id
    nextId,                         \* source of fresh message identifiers
    last_call,                      \* call_model's latest model call: the
                                    \* is_last_step it read and the response
    last_reply,                     \* the latest classifier call: the node
                                    \* that made it and the content returned
    last_outcomes                   \* how each call of the latest tools
                                    \* execution went

vars == <<recursion_limit, step, next, status, error, executed, written,
          messages, router_stage, reschedule_or_cancel_decision,
          appointments, appointment_id, nextId, last_call,
          last_reply, last_outcomes>>

fields == <<router_stage, reschedule_or_cancel_decision, appointments,
            appointment_id>>

\* What only a classifier node, call_model or the tools node records.
calls == <<last_call, last_reply, last_outcomes>>

-----------------------------------------------------------------------------
(* Bounds *)

\* The recursion limits a run is configured with.  The smallest lets the
\* longest branch without a cycle (router and three nodes) run to the end,
\* so that the budget only ever cuts the call_model/tools cycle.
MinRecursionLimit == 5
MaxRecursionLimit == 6

\* The most tool-call requests one model response carries.
MaxToolCalls == 1

-----------------------------------------------------------------------------
(* Text written or read by the nodes *)

FallbackText ==
    "Sorry, I could not find an answer to your question in the specified number of steps."

EscalationText == "Let me escalate this with a real person."

SuggestionText ==
    "I would love to cancel the appointment but would you like to reschedule instead?"

ConfirmationText == "I will cancel the appointment for you! Thank you!"

\* The initial message sequences a run is started with.
Inputs == {"I want to cancel my appointment", "What services do you offer?"}

\* The texts a classifier call may answer with, as character sequences.
ClassifierContents ==
    { <<"1">>, <<"2">>, <<"3">>, <<"4">>, <<"0">>, <<"-", "1">>,
      <<" ", "2", "\n">>, <<"t", "w", "o">>, << >> }

-----------------------------------------------------------------------------
(* int(response.content) *)

Whitespace == {" ", "\n", "\t"}

DigitValue(c) ==
    CASE c = "0" -> 0 [] c = "1" -> 1 [] c = "2" -> 2 [] c = "3" -> 3
      [] c = "4" -> 4 [] c = "5" -> 5 [] c = "6" -> 6 [] c = "7" -> 7
      [] c = "8" -> 8 [] c = "9" -> 9 [] OTHER -> -1

RECURSIVE Strip(_)
Strip(s) ==
    IF s = << >> THEN s
    ELSE IF Head(s) \in Whitespace THEN Strip(Tail(s))
    ELSE IF s[Len(s)] \in Whitespace THEN Strip(SubSeq(s, 1, Len(s) - 1))
    ELSE s

RECURSIVE Digits(_, _)
\* The value of a non-empty digit sequence, [ok |-> FALSE] for any other.
Digits(s, acc) ==
    IF s = << >> THEN [ok |-> TRUE, val |-> acc]
    ELSE IF DigitValue(Head(s)) < 0 THEN [ok |-> FALSE, val |-> 0]
    ELSE Digits(Tail(s), 10 * acc + DigitValue(Head(s)))

\* Python's int() on a str: surrounding whitespace is ignored, a sign may
\* lead, at least one digit must follow; anything else raises ValueError.
PyInt(content) ==
    LET s    == Strip(content)
        neg  == s # << >> /\ Head(s) = "-"
        body == IF s # << >> /\ Head(s) \in {"-", "+"} THEN Tail(s) ELSE s
        d    == IF body = << >> THEN [ok |-> FALSE, val |-> 0]
                ELSE Digits(body, 0)
    IN  IF d.ok THEN [ok |-> TRUE, val |-> IF neg THEN 0 - d.val ELSE d.val]
        ELSE d

-----------------------------------------------------------------------------
(* Messages *)

AIMessage(id, content, tool_calls) ==
    [type |-> "ai", id |-> id, content |-> content, tool_calls |-> tool_calls,
     status |-> "success"]

HumanMessage(id, content) ==
    [type |-> "human", id |-> id, content |-> content, tool_calls |-> << >>,
     status |-> "success"]

ToolMessage(id, content, st) ==
    [type |-> "tool", id |-> id, content |-> content, tool_calls |-> << >>,
     status |-> st]

\* One message merged into the history: a message whose id is the id of a
\* message of the history takes that message's place, any other is appended.
AddMessage(left, m) ==
    IF \E i \in 1..Len(left) : left[i].id = m.id
    THEN [i \in 1..Len(left) |-> IF left[i].id = m.id THEN m ELSE left[i]]
    ELSE Append(left, m)

RECURSIVE AddMessages(_, _)
\* The reducer of State.messages: the messages of the update are merged
\* into the history one after the other.
AddMessages(left, right) ==
    IF right = << >> THEN left
    ELSE AddMessages(AddMessage(left, Head(right)), Tail(right))

-----------------------------------------------------------------------------
(* The superstep loop *)

\* graph = builder.compile(...) is executed by langgraph's Pregel loop.  A
\* fresh run starts with stop = recursion_limit; superstep 0 runs the entry
\* node "__start__", every later superstep runs the nodes scheduled by the
\* edges out of the nodes of the superstep before; here one node is taken
\* per superstep, which is the whole superstep while a single node is
\* scheduled.
\* Before each superstep the loop first gives up with GraphRecursionError
\* when step > stop, and only then looks for a scheduled node and ends the
\* run when there is none.  State.is_last_step is step = stop - 1: the last
\* superstep after which the run can still end normally.

\* The last superstep number at which the loop still executes tasks.
Stop == recursion_limit

\* State.is_last_step as the node executing in the current superstep reads it.
IsLastStep == step = Stop - 1

\* The loop executes the scheduled node n in this superstep.
Runs(n) == status = "pending" /\ step <= Stop /\ n \in next

\* A node returned its update: the superstep ends and the nodes that the
\* edges out of n lead to, s, are scheduled.
Advance(n, s) ==
    /\ step' = step + 1
    /\ executed' = Append(executed, n)
    /\ next' = s
    /\ UNCHANGED <<recursion_limit, status, error>>

\* A node raised: the exception leaves the loop and the run is over.
Raise(n, exc) ==
    /\ step' = step
    /\ executed' = Append(executed, n)
    /\ next' = next
    /\ status' = "failed"
    /\ error' = exc
    /\ UNCHANGED recursion_limit

-----------------------------------------------------------------------------
(* Collaborators *)

\* get_appointments of tools.py: the two fixture records, in this order.
get_appointments ==
    << [id |-> 1, time |-> "2025-01-01 10:00:00",
        description |-> "Home cleaning service"],
       [id |-> 2, time |-> "2025-01-05 14:00:00",
        description |-> "Plumbing repair"] >>

\* TOOLS of tools.py: the tools bound to the model and known to the tools node.
TOOLS == {"search", "get_appointments"}

\* The tool names a model response may request; cancel_appointment is
\* defined in tools.py but is not one of TOOLS.
RequestedNames == TOOLS \cup {"cancel_appointment"}

RECURSIVE SeqsUpTo(_, _)
SeqsUpTo(S, n) ==
    IF n = 0 THEN { << >> }
    ELSE LET shorter == SeqsUpTo(S, n - 1)
         IN  shorter \cup { Append(q, x) : q \in shorter, x \in S }

\* The tool-call requests one model response may carry.
ToolCallSeqs == SeqsUpTo(RequestedNames, MaxToolCalls)

-----------------------------------------------------------------------------
(* The edges *)

\* The edges with get_appointments_node leading on to the classifier of the
\* reschedule-or-cancel decision.
edge_fetch_then_decide(n) ==
    CASE n = "__start__"                       -> {"router"}
      [] n = "get_appointments_node"           -> {"determine_reschedule_or_cancel"}
      [] n = "determine_appointment_to_cancel" -> {"confirmation_message_node"}
      [] n = "confirmation_message_node"       -> {"__end__"}
      [] n = "suggest_reschedule_node"         -> {"__end__"}
      [] n = "tools"                           -> {"call_model"}
      [] n = "reschedule_message_node"         -> {"__end__"}
      [] OTHER                                 -> {}

\* The edges without the edge into confirmation_message_node: the run ends
\* after determine_appointment_to_cancel.
edge_no_confirmation(n) ==
    CASE n = "__start__"                       -> {"router"}
      [] n = "get_appointments_node"           -> {"suggest_reschedule_node"}
      [] n = "determine_appointment_to_cancel" -> {"__end__"}
      [] n = "confirmation_message_node"       -> {"__end__"}
      [] n = "suggest_reschedule_node"         -> {"__end__"}
      [] n = "tools"                           -> {"call_model"}
      [] n = "reschedule_message_node"         -> {"__end__"}
      [] OTHER                                 -> {}

\* The edges with an unconditional edge "router" -> "call_model" left beside
\* the router's conditional edges.
edge_router_to_call_model(n) ==
    CASE n = "__start__"                       -> {"router"}
      [] n = "router"                          -> {"call_model"}
      [] n = "get_appointments_node"           -> {"suggest_reschedule_node"}
      [] n = "determine_appointment_to_cancel" -> {"confirmation_message_node"}
      [] n = "confirmation_message_node"       -> {"__end__"}
      [] n = "suggest_reschedule_node"         -> {"__end__"}
      [] n = "tools"                           -> {"call_model"}
      [] n = "reschedule_message_node"         -> {"__end__"}
      [] OTHER                                 -> {}

\* builder.add_edge: the nodes the unconditional edges out of node n lead
\* to.  A node whose successor a routing function chooses has none.
edge(n) ==
    CASE n = "__start__"                       -> {"router"}
      [] n = "get_appointments_node"           -> {"suggest_reschedule_node"}
      [] n = "determine_appointment_to_cancel" -> {"confirmation_message_node"}
      [] n = "confirmation_message_node"       -> {"__end__"}
      [] n = "suggest_reschedule_node"         -> {"__end__"}
      [] n = "tools"                           -> {"call_model"}
      [] n = "reschedule_message_node"         -> {"__end__"}
      [] OTHER                                 -> {}

-----------------------------------------------------------------------------
(* Routing functions of the conditional edges *)

\* route_from_router with the else branch on stage 2 instead of stage 3.
route_from_router_stage3(stage) ==
    IF stage = 1 THEN "get_appointments_node"
    ELSE IF stage = 3 THEN "determine_reschedule_or_cancel"
    ELSE "call_model"

route_from_router(stage) ==
    IF stage = 1 THEN "get_appointments_node"
    ELSE IF stage = 2 THEN "call_model"
    ELSE "determine_reschedule_or_cancel"

\* route_after_reschedule_or_cancel asking the router again on a reschedule.
route_after_reschedule_or_cancel_again(decision) ==
    IF decision = 2 THEN "determine_appointment_to_cancel"
    ELSE "router"

\* route_after_reschedule_or_cancel testing for 1 (reschedule) instead of 2.
route_after_reschedule_or_cancel_on1(decision) ==
    IF decision = 1 THEN "reschedule_message_node"
    ELSE "determine_appointment_to_cancel"

route_after_reschedule_or_cancel(decision) ==
    IF decision = 2 THEN "determine_appointment_to_cancel"
    ELSE "reschedule_message_node"

\* route_model_output without the test that ends the loop.
route_model_output_to_tools(msgs) ==
    LET last_message == msgs[Len(msgs)]
    IN  IF last_message.type # "ai" THEN "ValueError"
        ELSE "tools"

\* "ValueError" stands for the raise of lines 257-260.
route_model_output(msgs) ==
    LET last_message == msgs[Len(msgs)]
    IN  IF last_message.type # "ai" THEN "ValueError"
        ELSE IF last_message.tool_calls = << >> THEN "__end__"
        ELSE "tools"

-----------------------------------------------------------------------------
(* What the nodes return *)

\* call_model_update building the fallback message without id=response.id.
call_model_update_no_id(is_last_step, response) ==
    IF is_last_step /\ response.tool_calls # << >>
    THEN << AIMessage(0, FallbackText, << >>) >>
    ELSE << response >>

\* call_model_update giving the fallback message the id of the latest
\* message of the history instead of the response's.
call_model_update_prev_id(is_last_step, response) ==
    IF is_last_step /\ response.tool_calls # << >>
    THEN << AIMessage(response.id - 1, FallbackText, << >>) >>
    ELSE << response >>

\* call_model_update returning no message on the last step.
call_model_update_nothing(is_last_step, response) ==
    IF is_last_step /\ response.tool_calls # << >>
    THEN << >>
    ELSE << response >>

\* The update call_model returns for the model's response.
call_model_update(is_last_step, response) ==
    IF is_last_step /\ response.tool_calls # << >>
    THEN << AIMessage(response.id, FallbackText, << >>) >>
    ELSE << response >>

\* The message the tools node returns for one requested call.  A call of a
\* name outside TOOLS and a tool that raises both yield an error message.
tool_message(id, name, outcome) ==
    IF name \notin TOOLS
    THEN ToolMessage(id, "Error: not a valid tool", "error")
    ELSE IF outcome = "error"
    THEN ToolMessage(id, "Error: tool raised", "error")
    ELSE ToolMessage(id, name, "success")

\* The update of the tools node: one tool message per requested call, in
\* the order of the requests.
tools_update(tool_calls, outcomes, firstId) ==
    [i \in 1..Len(tool_calls) |->
        tool_message(firstId + i - 1, tool_calls[i], outcomes[i])]

-----------------------------------------------------------------------------
(* The run *)

\* No model call made yet by call_model.
NoCall == [is_last_step |-> FALSE, response |-> AIMessage(0, "", << >>)]

Init ==
    /\ recursion_limit \in MinRecursionLimit..MaxRecursionLimit
    /\ step = 0
    /\ next = {"__start__"}
    /\ status = "pending"
    /\ error = "none"
    /\ executed = << >>
    /\ written = {}
    /\ messages = << >>
    /\ router_stage = 0
    /\ reschedule_or_cancel_decision = 0
    /\ appointments = << >>
    /\ appointment_id = 0
    /\ nextId = 1
    /\ last_call = NoCall
    /\ last_reply = [node |-> "none", content |-> << >>]
    /\ last_outcomes = << >>

\* The entry point: the input messages enter the state and the edge
\* "__start__" -> "router" schedules the router.
start ==
    /\ Runs("__start__")
    /\ \E input \in Inputs :
         messages' = AddMessages(messages, << HumanMessage(nextId, input) >>)
    /\ nextId' = nextId + 1
    /\ step' = step + 1
    /\ next' = edge("__start__")
    /\ UNCHANGED <<recursion_limit, status, error, executed, written, fields,
                   calls>>

\* router falling back to stage 3 when the reply is no integer.
router_default ==
    /\ Runs("router")
    /\ \/ /\ Raise("router", "CollaboratorUnavailable")
          /\ UNCHANGED <<router_stage, written, last_reply>>
       \/ \E content \in ClassifierContents :
            LET stage == IF PyInt(content).ok THEN PyInt(content).val ELSE 3
            IN  /\ last_reply' = [node |-> "router", content |-> content]
                /\ router_stage' = stage
                /\ written' = written \cup {"router_stage"}
                /\ Advance("router", edge("router") \cup {route_from_router(stage)})
    /\ UNCHANGED <<messages, reschedule_or_cancel_decision, appointments,
                   appointment_id, nextId, last_call, last_outcomes>>

router ==
    /\ Runs("router")
    /\ \/ /\ Raise("router", "CollaboratorUnavailable")
          /\ UNCHANGED <<router_stage, written, last_reply>>
       \/ \E content \in ClassifierContents :
            LET stage == PyInt(content)
            IN  /\ last_reply' = [node |-> "router", content |-> content]
                /\ IF stage.ok
                   THEN /\ router_stage' = stage.val
                        /\ written' = written \cup {"router_stage"}
                        /\ Advance("router",
                                   edge("router") \cup {route_from_router(stage.val)})
                   ELSE /\ Raise("router", "ValueError")
                        /\ UNCHANGED <<router_stage, written>>
    /\ UNCHANGED <<messages, reschedule_or_cancel_decision, appointments,
                   appointment_id, nextId, last_call, last_outcomes>>

determine_reschedule_or_cancel ==
    /\ Runs("determine_reschedule_or_cancel")
    /\ \/ /\ Raise("determine_reschedule_or_cancel", "CollaboratorUnavailable")
          /\ UNCHANGED <<reschedule_or_cancel_decision, written, last_reply>>
       \/ \E content \in ClassifierContents :
            LET reschedule_or_cancel == PyInt(content)
            IN  /\ last_reply' = [node |-> "determine_reschedule_or_cancel",
                                  content |-> content]
                /\ IF reschedule_or_cancel.ok
                   THEN /\ reschedule_or_cancel_decision' = reschedule_or_cancel.val
                        /\ written' = written \cup {"reschedule_or_cancel_decision"}
                        /\ Advance("determine_reschedule_or_cancel",
                             edge("determine_reschedule_or_cancel") \cup
                             {route_after_reschedule_or_cancel(reschedule_or_cancel.val)})
                   ELSE /\ Raise("determine_reschedule_or_cancel", "ValueError")
                        /\ UNCHANGED <<reschedule_or_cancel_decision, written>>
    /\ UNCHANGED <<messages, router_stage, appointments, appointment_id,
                   nextId, last_call, last_outcomes>>

\* reschedule_message_node answering with the confirmation text.
reschedule_message_node_confirming ==
    /\ Runs("reschedule_message_node")
    /\ messages' = AddMessages(messages, << AIMessage(nextId, ConfirmationText, << >>) >>)
    /\ nextId' = nextId + 1
    /\ Advance("reschedule_message_node", edge("reschedule_message_node"))
    /\ UNCHANGED <<written, fields, calls>>

reschedule_message_node ==
    /\ Runs("reschedule_message_node")
    /\ messages' = AddMessages(messages, << AIMessage(nextId, EscalationText, << >>) >>)
    /\ nextId' = nextId + 1
    /\ Advance("reschedule_message_node", edge("reschedule_message_node"))
    /\ UNCHANGED <<written, fields, calls>>

\* get_appointments_node storing the records in reverse order.
get_appointments_node_reversed ==
    /\ Runs("get_appointments_node")
    /\ appointments' = << get_appointments[2], get_appointments[1] >>
    /\ written' = written \cup {"appointments"}
    /\ Advance("get_appointments_node", edge("get_appointments_node"))
    /\ UNCHANGED <<messages, router_stage, reschedule_or_cancel_decision,
                   appointment_id, nextId, calls>>

get_appointments_node ==
    /\ Runs("get_appointments_node")
    /\ appointments' = get_appointments
    /\ written' = written \cup {"appointments"}
    /\ Advance("get_appointments_node", edge("get_appointments_node"))
    /\ UNCHANGED <<messages, router_stage, reschedule_or_cancel_decision,
                   appointment_id, nextId, calls>>

suggest_reschedule_node ==
    /\ Runs("suggest_reschedule_node")
    /\ messages' = AddMessages(messages, << AIMessage(nextId, SuggestionText, << >>) >>)
    /\ nextId' = nextId + 1
    /\ Advance("suggest_reschedule_node", edge("suggest_reschedule_node"))
    /\ UNCHANGED <<written, fields, calls>>

determine_appointment_to_cancel ==
    /\ Runs("determine_appointment_to_cancel")
    /\ \/ /\ Raise("determine_appointment_to_cancel", "CollaboratorUnavailable")
          /\ UNCHANGED <<appointment_id, written, last_reply>>
       \/ \E content \in ClassifierContents :
            LET id == PyInt(content)
            IN  /\ last_reply' = [node |-> "determine_appointment_to_cancel",
                                  content |-> content]
                /\ IF id.ok
                   THEN /\ appointment_id' = id.val
                        /\ written' = written \cup {"appointment_id"}
                        /\ Advance("determine_appointment_to_cancel",
                                   edge("determine_appointment_to_cancel"))
                   ELSE /\ Raise("determine_appointment_to_cancel", "ValueError")
                        /\ UNCHANGED <<appointment_id, written>>
    /\ UNCHANGED <<messages, router_stage, reschedule_or_cancel_decision,
                   appointments, nextId, last_call, last_outcomes>>

confirmation_message_node ==
    /\ Runs("confirmation_message_node")
    /\ messages' = AddMessages(messages, << AIMessage(nextId, ConfirmationText, << >>) >>)
    /\ nextId' = nextId + 1
    /\ Advance("confirmation_message_node", edge("confirmation_message_node"))
    /\ UNCHANGED <<written, fields, calls>>

call_model ==
    /\ Runs("call_model")
    /\ \/ /\ Raise("call_model", "CollaboratorUnavailable")
          /\ UNCHANGED <<messages, nextId, last_call>>
       \/ \E tool_calls \in ToolCallSeqs :
            LET response == AIMessage(nextId, "model response", tool_calls)
                history  == AddMessages(messages,
                                        call_model_update(IsLastStep, response))
                target   == route_model_output(history)
            IN  /\ last_call' = [is_last_step |-> IsLastStep, response |-> response]
                /\ nextId' = nextId + 1
                /\ messages' = history
                /\ IF target = "ValueError"
                   THEN Raise("call_model", "ValueError")
                   ELSE Advance("call_model", edge("call_model") \cup {target})
    /\ UNCHANGED <<written, fields, last_reply, last_outcomes>>

\* The tools node letting a tool's exception escape.
tools_raising ==
    /\ Runs("tools")
    /\ LET tool_calls == messages[Len(messages)].tool_calls
       IN  \E outcomes \in [1..Len(tool_calls) -> {"success", "error"}] :
             /\ last_outcomes' = outcomes
             /\ IF \E i \in 1..Len(tool_calls) :
                       tool_calls[i] \in TOOLS /\ outcomes[i] = "error"
                THEN /\ Raise("tools", "ToolException")
                     /\ UNCHANGED <<messages, nextId>>
                ELSE /\ messages' = AddMessages(messages,
                                       tools_update(tool_calls, outcomes, nextId))
                     /\ nextId' = nextId + Len(tool_calls)
                     /\ Advance("tools", edge("tools"))
    /\ UNCHANGED <<written, fields, last_call, last_reply>>

\* The tools node storing the result of get_appointments in the state.
tools_storing_appointments ==
    /\ Runs("tools")
    /\ LET tool_calls == messages[Len(messages)].tool_calls
       IN  \E outcomes \in [1..Len(tool_calls) -> {"success", "error"}] :
             /\ messages' = AddMessages(messages,
                                        tools_update(tool_calls, outcomes, nextId))
             /\ nextId' = nextId + Len(tool_calls)
             /\ last_outcomes' = outcomes
             /\ IF \E i \in 1..Len(tool_calls) :
                       tool_calls[i] = "get_appointments" /\ outcomes[i] = "success"
                THEN /\ appointments' = get_appointments
                     /\ written' = written \cup {"appointments"}
                ELSE UNCHANGED <<appointments, written>>
    /\ Advance("tools", edge("tools"))
    /\ UNCHANGED <<router_stage, reschedule_or_cancel_decision, appointment_id,
                   last_call, last_reply>>

\* The tools node with its edge leading to the router.
tools_to_router ==
    /\ Runs("tools")
    /\ LET tool_calls == messages[Len(messages)].tool_calls
       IN  \E outcomes \in [1..Len(tool_calls) -> {"success", "error"}] :
             /\ messages' = AddMessages(messages,
                                        tools_update(tool_calls, outcomes, nextId))
             /\ nextId' = nextId + Len(tool_calls)
             /\ last_outcomes' = outcomes
    /\ Advance("tools", {"router"})
    /\ UNCHANGED <<written, fields, last_call, last_reply>>

\* ToolNode(TOOLS): every call requested by the last message is dispatched;
\* a tool that raises is answered with an error message, not an exception.
tools ==
    /\ Runs("tools")
    /\ LET tool_calls == messages[Len(messages)].tool_calls
       IN  \E outcomes \in [1..Len(tool_calls) -> {"success", "error"}] :
             /\ messages' = AddMessages(messages,
                                        tools_update(tool_calls, outcomes, nextId))
             /\ nextId' = nextId + Len(tool_calls)
             /\ last_outcomes' = outcomes
    /\ Advance("tools", edge("tools"))
    /\ UNCHANGED <<written, fields, last_call, last_reply>>

\* No node is scheduled: the run returns its state to the caller.
finish ==
    /\ status = "pending"
    /\ step <= Stop
    /\ next \subseteq {"__end__"}
    /\ status' = "done"
    /\ UNCHANGED <<recursion_limit, step, next, error, executed, written,
                   messages, fields, nextId, calls>>

\* The step counter passed the limit: GraphRecursionError.
out_of_steps ==
    /\ status = "pending"
    /\ step > Stop
    /\ status' = "out_of_steps"
    /\ error' = "GraphRecursionError"
    /\ UNCHANGED <<recursion_limit, step, next, executed, written, messages,
                   fields, nextId, calls>>

Next ==
    \/ start
    \/ router
    \/ determine_reschedule_or_cancel
    \/ reschedule_message_node
    \/ get_appointments_node
    \/ suggest_reschedule_node
    \/ determine_appointment_to_cancel
    \/ confirmation_message_node
    \/ call_model
    \/ tools
    \/ finish
    \/ out_of_steps

Spec == Init /\ [][Next]_vars

\* The loop runs a pending run's next superstep without delay.
FairSpec == Spec /\ WF_vars(Next)

-----------------------------------------------------------------------------
(* Properties *)

Last(q) == q[Len(q)]

Range(q) == {q[i] : i \in 1..Len(q)}

\* The node executed after the i-th executed node, or the nodes scheduled
\* when the i-th is the latest.
Successor(i) == IF i < Len(executed) THEN {executed[i + 1]} ELSE next

\* C1: once the router has written router_stage, the node that follows it is
\* fixed by that value alone: get_appointments_node for 1, call_model for 2,
\* determine_reschedule_or_cancel for 3 and for any other value; it is one
\* of these three and no other node.
C1_RouterSuccessor ==
    \A i \in 1..Len(executed) :
        (executed[i] = "router" /\ "router_stage" \in written) =>
            /\ router_stage = 1 => Successor(i) = {"get_appointments_node"}
            /\ router_stage = 2 => Successor(i) = {"call_model"}
            /\ router_stage \notin {1, 2} =>
                   Successor(i) = {"determine_reschedule_or_cancel"}
            /\ Successor(i) \in {{"get_appointments_node"}, {"call_model"},
                                 {"determine_reschedule_or_cancel"}}

\* The router answered with a value outside 1..3 and the node after it ran.
C1_Witness ==
    /\ Len(executed) >= 2
    /\ executed[1] = "router"
    /\ router_stage = 4
    /\ executed[2] = "determine_reschedule_or_cancel"

\* C2: once determine_reschedule_or_cancel has written its decision, the
\* node that follows it is determine_appointment_to_cancel when the decision
\* is 2 and reschedule_message_node for every other value.
C2_DecisionSuccessor ==
    \A i \in 1..Len(executed) :
        (/\ executed[i] = "determine_reschedule_or_cancel"
         /\ "reschedule_or_cancel_decision" \in written) =>
            /\ reschedule_or_cancel_decision = 2 =>
                   Successor(i) = {"determine_appointment_to_cancel"}
            /\ reschedule_or_cancel_decision # 2 =>
                   Successor(i) = {"reschedule_message_node"}

\* A decision that is neither 1 nor 2 was followed by the escalation node.
C2_Witness ==
    /\ Len(executed) >= 3
    /\ executed[2] = "determine_reschedule_or_cancel"
    /\ reschedule_or_cancel_decision = 3
    /\ executed[3] = "reschedule_message_node"

\* C3: when call_model ran with is_last_step true and the model's response
\* carried a tool call, the message appended is the fallback text under the
\* response's identifier and without tool calls, the tools node does not
\* run afterwards, and the run goes to the end.
C3_LastStepFallback ==
    (last_call.is_last_step /\ last_call.response.tool_calls # << >>) =>
        /\ Last(messages) =
               [type |-> "ai", id |-> last_call.response.id,
                content |-> FallbackText, tool_calls |-> << >>,
                status |-> "success"]
        /\ Len(messages) >= 2 /\ messages[Len(messages) - 1].type # "ai"
        /\ Last(executed) = "call_model"
        /\ next = {"__end__"}
        /\ \/ status = "done"
           \/ status = "pending" /\ step <= Stop

\* Such a run, finished.
C3_Witness ==
    /\ last_call.is_last_step
    /\ last_call.response.tool_calls # << >>
    /\ status = "done"

\* The number of call_model and tools executions of the run.
LoopExecutions ==
    Cardinality({i \in 1..Len(executed) : executed[i] \in {"call_model", "tools"}})

\* C4: whatever the model answers, the call_model/tools loop stays within
\* the step budget and the run ends at the end node: the number of
\* call_model and tools executions never exceeds the budget, and a run in
\* which no model call failed is never stopped short of the end.
C4_LoopEndsWithinBudget ==
    ("call_model" \in Range(executed) /\ error # "CollaboratorUnavailable") =>
        /\ LoopExecutions <= recursion_limit
        /\ status \in {"pending", "done"}

\* C5: exhausting the step budget is never an error for the caller: a run
\* that entered the agent loop does not end in GraphRecursionError, and when
\* it ends its last message is an assistant message without tool calls (the
\* model's or the fallback).
C5_BudgetNeverAnError ==
    "call_model" \in Range(executed) =>
        /\ error # "GraphRecursionError"
        /\ status = "done" =>
               /\ Last(messages).type = "ai"
               /\ Last(messages).tool_calls = << >>

\* C6: when determine_appointment_to_cancel set appointment_id to -1, the
\* confirmation does not fire: confirmation_message_node is not executed
\* and the confirmation text is not among the messages.
C6_SentinelStopsConfirmation ==
    ("appointment_id" \in written /\ appointment_id = -1) =>
        /\ "confirmation_message_node" \notin Range(executed)
        /\ \A i \in 1..Len(messages) : messages[i].content # ConfirmationText

\* The latest classifier reply came to node n and is an integer of S.
ReplyIn(n, S) ==
    /\ last_reply.node = n
    /\ PyInt(last_reply.content).ok
    /\ PyInt(last_reply.content).val \in S

\* Node n raised ValueError: the run is over, n was the last node to run
\* and its field f was not written.
Aborted(n, f) ==
    /\ status = "failed"
    /\ error = "ValueError"
    /\ Last(executed) = n
    /\ f \notin written

\* C7 as stated: a reply to the router that is no integer of 1..3, and a
\* reply to determine_reschedule_or_cancel that is no integer of 1..2, makes
\* the node fail: the run aborts, the field is not written, no node follows.
C7_OutOfRangeAborts ==
    /\ (last_reply.node = "router" /\ ~ReplyIn("router", {1, 2, 3})) =>
           Aborted("router", "router_stage")
    /\ (/\ last_reply.node = "determine_reschedule_or_cancel"
        /\ ~ReplyIn("determine_reschedule_or_cancel", {1, 2})) =>
           Aborted("determine_reschedule_or_cancel",
                   "reschedule_or_cancel_decision")

\* C7 amended: a reply that is no integer at all makes the node fail: the
\* run aborts, the field is not written and no node follows; a reply that
\* is an integer, of the range or not, is written as the field's value.
C7_UnparseableAborts ==
    /\ (last_reply.node = "router" /\ ~ReplyIn("router", Int)) =>
           Aborted("router", "router_stage")
    /\ (/\ last_reply.node = "determine_reschedule_or_cancel"
        /\ ~ReplyIn("determine_reschedule_or_cancel", Int)) =>
           Aborted("determine_reschedule_or_cancel",
                   "reschedule_or_cancel_decision")
    /\ ReplyIn("router", Int) =>
           /\ "router_stage" \in written
           /\ router_stage = PyInt(last_reply.content).val
    /\ ReplyIn("determine_reschedule_or_cancel", Int) =>
           /\ "reschedule_or_cancel_decision" \in written
           /\ reschedule_or_cancel_decision = PyInt(last_reply.content).val

\* The router was answered "two" and the run aborted there.
C7_Witness ==
    /\ last_reply = [node |-> "router", content |-> <<"t", "w", "o">>]
    /\ status = "failed"
    /\ executed = << "router" >>

\* C8: a failing tool does not abort the run: the tools node appends one
\* tool message per requested call, the message of a failed call carrying
\* the error status, and call_model follows as after a success.
C8_ToolErrorRecovered ==
    /\ \A i \in 1..Len(executed) :
           executed[i] = "tools" => Successor(i) = {"call_model"}
    /\ (executed # << >> /\ Last(executed) = "tools") =>
           LET n    == Len(last_outcomes)
               base == Len(messages) - n
           IN  /\ status = "pending" /\ step <= Stop
               /\ base >= 1 /\ Len(messages[base].tool_calls) = n
               /\ \A i \in 1..n :
                      /\ messages[base + i].type = "tool"
                      /\ last_outcomes[i] = "error" =>
                             messages[base + i].status = "error"
                      /\ (/\ last_outcomes[i] = "success"
                          /\ messages[base].tool_calls[i] \in TOOLS) =>
                             messages[base + i].status = "success"

\* A tool of TOOLS raised and call_model ran next.
C8_Witness ==
    /\ Len(executed) >= 4
    /\ executed[3] = "tools"
    /\ executed[4] = "call_model"
    /\ last_outcomes # << >> /\ last_outcomes[1] = "error"
    /\ messages[2].tool_calls[1] \in TOOLS
    /\ messages[3].status = "error"

\* C9: router_stage and reschedule_or_cancel_decision are written at most
\* once: no step changes either after it has been written.
C9_WrittenOnce ==
    [][/\ "router_stage" \in written =>
              /\ router_stage' = router_stage
              /\ "router_stage" \in written'
       /\ "reschedule_or_cancel_decision" \in written =>
              /\ reschedule_or_cancel_decision' = reschedule_or_cancel_decision
              /\ "reschedule_or_cancel_decision" \in written']_vars

\* Both fields were written and the run went on to its end.
C9_Witness ==
    /\ {"router_stage", "reschedule_or_cancel_decision"} \subseteq written
    /\ reschedule_or_cancel_decision = 1
    /\ status = "done"

\* C10: the router is the first node executed and is executed at most once:
\* it is scheduled by the entry edge only.
C10_RouterOnce ==
    /\ executed # << >> => executed[1] = "router"
    /\ \A i \in 2..Len(executed) : executed[i] # "router"
    /\ (status = "pending" /\ "router" \in next) => executed = << >>

\* The cycle was taken twice.
C10_Witness ==
    /\ Len(executed) >= 6
    /\ executed[3] = "tools"
    /\ executed[5] = "tools"
    /\ executed[6] = "call_model"

IsPrefix(a, b) == Len(a) <= Len(b) /\ SubSeq(b, 1, Len(a)) = a

\* C11: messages is append-only: in every step the sequence before is a
\* prefix of the sequence after, also in the step in which call_model
\* substitutes the fallback message under the response's identifier.
C11_MessagesAppendOnly == [][IsPrefix(messages, messages')]_vars

\* The fallback message was appended after a tool result.
C11_Witness ==
    /\ Len(messages) >= 4
    /\ Last(messages).content = FallbackText
    /\ Last(messages).id = last_call.response.id
    /\ messages[Len(messages) - 1].type = "tool"

\* C12: at every point of a run at most one node is scheduled: the edges
\* out of the node just executed, unconditional and conditional together,
\* lead to exactly one successor, so no superstep runs two nodes.
C12_OneNodeAtATime == Cardinality(next) = 1

\* The router's routing function has chosen among its three successors and
\* the cycle has scheduled the tools node.
C12_Witness ==
    /\ next = {"tools"}
    /\ Len(executed) >= 4
    /\ status = "pending"

\* C13 as stated: when no classifier, model or data-source call fails, the
\* run reaches the end whichever branch the router selects: it is never
\* stopped short of it, and at the end no node is scheduled any more.
C13_EveryRunReachesEnd ==
    error \notin {"CollaboratorUnavailable", "ValueError"} =>
        /\ status \in {"pending", "done"}
        /\ status = "done" => next = {"__end__"}

\* The run is neither failed nor cut by the step budget: it is at its end
\* or its next superstep can run.
OnItsWay ==
    /\ error = "none"
    /\ \/ status = "done"
       \/ status = "pending" /\ step <= Stop

\* C14: a run whose router returned stage 1 executes router,
\* get_appointments_node, suggest_reschedule_node in this order and ends;
\* appointments then holds the two fixture records, ids 1 and 2, in the
\* order of the data source, and the last message is the suggestion.
C14_StageOneRun ==
    ("router_stage" \in written /\ router_stage = 1) =>
        /\ IsPrefix(executed, << "router", "get_appointments_node",
                                 "suggest_reschedule_node" >>)
        /\ OnItsWay
        /\ "appointments" \in written =>
               appointments =
                   << [id |-> 1, time |-> "2025-01-01 10:00:00",
                       description |-> "Home cleaning service"],
                      [id |-> 2, time |-> "2025-01-05 14:00:00",
                       description |-> "Plumbing repair"] >>
        /\ status = "done" =>
               /\ Len(executed) = 3
               /\ Len(appointments) = 2
               /\ Len(messages) = 2
               /\ Last(messages).type = "ai"
               /\ Last(messages).content =
                      "I would love to cancel the appointment but would you like to reschedule instead?"

\* A stage-1 run at its end.
C14_Witness ==
    /\ router_stage = 1
    /\ status = "done"
    /\ messages[1].content = "I want to cancel my appointment"

\* C15: a run whose router returned stage 3, whose decision is 2 and whose
\* appointment id was resolved executes router,
\* determine_reschedule_or_cancel, determine_appointment_to_cancel,
\* confirmation_message_node in this order and ends with the confirmation
\* as its last message.
C15_CancelRun ==
    (/\ router_stage = 3
     /\ "reschedule_or_cancel_decision" \in written
     /\ reschedule_or_cancel_decision = 2
     /\ "appointment_id" \in written
     /\ appointment_id # -1) =>
        /\ IsPrefix(executed, << "router", "determine_reschedule_or_cancel",
                                 "determine_appointment_to_cancel",
                                 "confirmation_message_node" >>)
        /\ Len(executed) >= 3
        /\ OnItsWay
        /\ Len(executed) = 3 => next = {"confirmation_message_node"}
        /\ status = "done" =>
               /\ Len(executed) = 4
               /\ Last(messages).type = "ai"
               /\ Last(messages).content =
                      "I will cancel the appointment for you! Thank you!"

\* Appointment 2 was selected and the run is at its end.
C15_Witness ==
    /\ router_stage = 3
    /\ reschedule_or_cancel_decision = 2
    /\ appointment_id = 2
    /\ status = "done"

\* C16: a run whose router returned stage 3 and whose decision is 1 appends
\* the escalation message as its last message and ends;
\* determine_appointment_to_cancel is never executed and appointment_id is
\* never written.
C16_RescheduleRun ==
    (/\ router_stage = 3
     /\ "reschedule_or_cancel_decision" \in written
     /\ reschedule_or_cancel_decision = 1) =>
        /\ IsPrefix(executed, << "router", "determine_reschedule_or_cancel",
                                 "reschedule_message_node" >>)
        /\ OnItsWay
        /\ "determine_appointment_to_cancel" \notin Range(executed) \cup next
        /\ "appointment_id" \notin written
        /\ last_reply.node # "determine_appointment_to_cancel"
        /\ status = "done" =>
               /\ Len(executed) = 3
               /\ Last(messages).type = "ai"
               /\ Last(messages).content = "Let me escalate this with a real person."

\* Such a run at its end.
C16_Witness ==
    /\ router_stage = 3
    /\ reschedule_or_cancel_decision = 1
    /\ status = "done"
    /\ Len(messages) = 2

\* C17: in a stage-2 run whose first model response carries a tool call and
\* whose second carries none, the nodes after router are call_model, tools,
\* call_model and then the end: the model is called twice, the tool results
\* lie between the two responses and the last message is the second response.
C17_OneToolRoundTrip ==
    (/\ "router_stage" \in written /\ router_stage = 2
     /\ Len(messages) >= 2
     /\ messages[2].tool_calls # << >>
     /\ LET k == 3 + Len(messages[2].tool_calls)
        IN  /\ Len(messages) >= k
            /\ messages[k].content = "model response"
            /\ messages[k].tool_calls = << >>) =>
        LET k == 3 + Len(messages[2].tool_calls)
        IN  /\ executed = << "router", "call_model", "tools", "call_model" >>
            /\ Len(messages) = k
            /\ \A i \in 3..(k - 1) : messages[i].type = "tool"
            /\ Last(messages) = last_call.response
            /\ Last(messages).id # messages[2].id
            /\ next = {"__end__"}
            /\ OnItsWay

\* Such a run at its end, its tool having succeeded.
C17_Witness ==
    /\ router_stage = 2
    /\ executed = << "router", "call_model", "tools", "call_model" >>
    /\ messages[3].status = "success"
    /\ Last(messages).tool_calls = << >>
    /\ Last(messages).content = "model response"
    /\ status = "done"

\* C18: whenever determine_appointment_to_cancel is scheduled or has run,
\* appointments is still empty: get_appointments_node has not run in this
\* run, so the classifier is never given a fetched list.
C18_SelectionSeesNoAppointments ==
    "determine_appointment_to_cancel" \in Range(executed) \cup next =>
        /\ appointments = << >>
        /\ "appointments" \notin written
        /\ "get_appointments_node" \notin Range(executed)

\* The selection classifier ran and answered.
C18_Witness ==
    /\ Len(executed) >= 3
    /\ executed[3] = "determine_appointment_to_cancel"
    /\ last_reply.node = "determine_appointment_to_cancel"
    /\ "appointment_id" \in written

\* C19: the ValueError of route_model_output is never raised: whenever
\* call_model has returned, the last message of the history is the
\* assistant message it appended.
C19_RouteSeesAssistantMessage ==
    /\ ~(error = "ValueError" /\ Last(executed) = "call_model")
    /\ (/\ executed # << >>
        /\ Last(executed) = "call_model"
        /\ error # "CollaboratorUnavailable") =>
           /\ Last(messages).type = "ai"
           /\ Last(messages).id = last_call.response.id
           /\ \A i \in 1..(Len(messages) - 1) :
                  messages[i].id # last_call.response.id

\* route_model_output was evaluated on the last step, after a tools round.
C19_Witness ==
    /\ Len(executed) >= 4
    /\ Last(executed) = "call_model"
    /\ last_call.is_last_step
    /\ status = "pending"
    /\ next = {"__end__"}

\* C20: an execution of call_model or of the tools node changes no field
\* but messages: router_stage, reschedule_or_cancel_decision, appointments
\* and appointment_id stay as they are, also when the tool executed is
\* get_appointments.
C20_LoopWritesMessagesOnly ==
    [][(/\ executed' # executed
        /\ Last(executed') \in {"call_model", "tools"}) =>
           /\ router_stage' = router_stage
           /\ reschedule_or_cancel_decision' = reschedule_or_cancel_decision
           /\ appointments' = appointments
           /\ appointment_id' = appointment_id
           /\ written' = written]_vars

\* The tools node ran get_appointments: its result is a tool message and
\* appointments is empty.
C20_Witness ==
    /\ executed # << >> /\ Last(executed) = "tools"
    /\ Last(messages) = [type |-> "tool", id |-> Last(messages).id,
                         content |-> "get_appointments", tool_calls |-> << >>,
                         status |-> "success"]
    /\ appointments = << >>

====
